---- MODULE Spec2Model ----
(***************************************************************************)
(* A model of RLAOutput (src/rla.imageio/rlaoutput.cpp): the RLA image     *)
(* writer's open / close / write_scanline, with the WAVEFRONT header kept  *)
(* as the flat byte image the C++ code works on, so that strcpy, strncpy,  *)
(* snprintf, swap_endian and fwrite act on bytes exactly as the code's     *)
(* calls do.                                                               *)
(***************************************************************************)
EXTENDS Integers, Sequences, FiniteSets, TLC

VARIABLES
    m_file,     \* RLAOutput::m_file: "NULL" or "FILE" (an open stdio stream)
    m_spec,     \* ImageOutput::m_spec, the stashed ImageSpec
    out,        \* the output file: the fwrite calls that filled it, each the member written and its bytes
    nwrites,    \* number of fwrite calls the last call made
    nopen,      \* number of stdio streams this object has fopen'ed and not fclose'd
    ret,        \* return value of the last call
    errmsg,     \* the message last passed to error(), "" when none yet
    last,       \* the last call made: "none", "open", "close", "write_scanline"
    arg,        \* the arguments of the last open call
    reads,      \* the channelformats indices the last open call read
    host,       \* byte order of the host: "little" or "big"
    pending     \* an open request the caller is about to make, or NoCall

vars == <<m_file, m_spec, out, nwrites, nopen, ret, errmsg, last, arg, reads, host, pending>>

-----------------------------------------------------------------------------
(* Bounds of the model *)

\* channel counts 0..MaxChannels
MaxChannels == 4
\* image heights 2^0 .. 2^MaxHeightExp (powers of two keep width/height exact in binary)
MaxHeightExp == 2
\* the longest over-long string is the largest field size plus StrOver
StrOver == 4

-----------------------------------------------------------------------------
(* ASCII literals of the source *)

Str_1_0 == <<49, 46, 48>>                                        \* "1.0"
Str_Linear == <<76, 105, 110, 101, 97, 114>>                     \* "Linear"
Str_GammaCorrected ==
    <<71, 97, 109, 109, 97, 67, 111, 114, 114, 101, 99, 116, 101, 100>>
Str_Unknown == <<85, 110, 107, 110, 111, 119, 110>>              \* "Unknown"
Str_rgb == <<114, 103, 98>>                                      \* "rgb"
Str_LINEAR == <<76, 73, 78, 69, 65, 82>>                         \* "LINEAR"
Str_sRGB == <<115, 82, 71, 66>>                                  \* "sRGB"
DefaultRedChroma == <<48, 46, 54, 55, 32, 48, 46, 48, 56>>       \* "0.67 0.08"
DefaultGreenChroma == <<48, 46, 50, 49, 32, 48, 46, 55, 49>>     \* "0.21 0.71"
DefaultBlueChroma == <<48, 46, 49, 52, 32, 48, 46, 51, 51>>      \* "0.14 0.33"
DefaultWhitePoint == <<48, 46, 51, 49, 32, 48, 46, 51, 49, 54>>  \* "0.31 0.316"
\* "OpenImageIO 0.10 http://www.openimageio.org"
OIIO_INTRO_STRING ==
    <<79, 112, 101, 110, 73, 109, 97, 103, 101, 73, 79, 32, 48, 46, 49, 48, 32,
      104, 116, 116, 112, 58, 47, 47, 119, 119, 119, 46, 111, 112, 101, 110,
      105, 109, 97, 103, 101, 105, 111, 46, 111, 114, 103>>
\* "JAN" .. "DEC", indexed by month number
MonthAbbrev ==
    << <<74, 65, 78>>, <<70, 69, 66>>, <<77, 65, 82>>, <<65, 80, 82>>,
       <<77, 65, 89>>, <<74, 85, 78>>, <<74, 85, 76>>, <<65, 85, 71>>,
       <<83, 69, 80>>, <<79, 67, 84>>, <<78, 79, 86>>, <<68, 69, 67>> >>

-----------------------------------------------------------------------------
(* The WAVEFRONT header: fields in declaration order with their byte sizes *)

WAVEFRONT ==
    << <<"WindowLeft", 2>>, <<"WindowRight", 2>>, <<"WindowBottom", 2>>,
       <<"WindowTop", 2>>, <<"ActiveLeft", 2>>, <<"ActiveRight", 2>>,
       <<"ActiveBottom", 2>>, <<"ActiveTop", 2>>, <<"FrameNumber", 2>>,
       <<"ColorChannelType", 2>>, <<"NumOfColorChannels", 2>>,
       <<"NumOfMatteChannels", 2>>, <<"NumOfAuxChannels", 2>>,
       <<"Revision", 2>>, <<"Gamma", 16>>, <<"RedChroma", 24>>,
       <<"GreenChroma", 24>>, <<"BlueChroma", 24>>, <<"WhitePoint", 24>>,
       <<"JobNumber", 2>>, <<"FileName", 128>>, <<"Description", 128>>,
       <<"ProgramName", 64>>, <<"MachineName", 32>>, <<"UserName", 32>>,
       <<"DateCreated", 20>>, <<"Aspect", 24>>, <<"AspectRatio", 16>>,
       <<"ColorChannel", 32>>, <<"FieldRendered", 2>>, <<"Time", 16>>,
       <<"Filter", 32>>, <<"NumOfChannelBits", 2>>, <<"MatteChannelType", 2>>,
       <<"NumOfMatteBits", 2>>, <<"AuxChannelType", 2>>, <<"NumOfAuxBits", 2>>,
       <<"AuxData", 32>>, <<"Reserved", 36>>, <<"NextOffset", 4>> >>

FieldNames == {WAVEFRONT[i][1] : i \in DOMAIN WAVEFRONT}

FieldIndex == [f \in FieldNames |-> CHOOSE i \in DOMAIN WAVEFRONT : WAVEFRONT[i][1] = f]

\* sizeof (rla.memb)
FieldSize == [f \in FieldNames |-> WAVEFRONT[FieldIndex[f]][2]]

RECURSIVE SumSizes(_)
SumSizes(n) == IF n = 0 THEN 0 ELSE WAVEFRONT[n][2] + SumSizes(n - 1)

\* 1-based position of the first byte of a member in the header image
FieldOff == [f \in FieldNames |-> SumSizes(FieldIndex[f] - 1) + 1]

\* sizeof (rla)
HeaderSize == SumSizes(Len(WAVEFRONT))

\* enum values of the channel type codes
CT_BYTE == 0
CT_FLOAT == 4

-----------------------------------------------------------------------------
(* Byte-level memory operations *)

Zeros(n) == [i \in 1..n |-> 0]

Min(a, b) == IF a < b THEN a ELSE b

\* the effect of a run of statements, each given as the memory it leaves:
\* the statements are evaluated in order and the last one's memory results
InOrder(steps) == steps[Len(steps)]

\* memset (&rla, 0, sizeof (rla))
ZeroHeader == Zeros(HeaderSize)

\* overwrite Len(bytes) bytes of mem starting at position pos
Store(mem, pos, bytes) ==
    IF Len(bytes) = 0 THEN mem
    ELSE SubSeq(mem, 1, pos - 1) \o bytes \o SubSeq(mem, pos + Len(bytes), Len(mem))

\* the bytes a member currently holds
Field(mem, f) == SubSeq(mem, FieldOff[f], FieldOff[f] + FieldSize[f] - 1)

\* strcpy (rla.f, s): every byte of s and the terminating NUL, with no bound
strcpy(mem, f, s) == Store(mem, FieldOff[f], s \o <<0>>)

\* strncpy (rla.f, s, n): the first n bytes of s, NUL-padded to exactly n bytes
strncpy(mem, f, s, n) ==
    Store(mem, FieldOff[f], SubSeq(s, 1, Min(Len(s), n)) \o Zeros(n - Min(Len(s), n)))

\* snprintf (rla.f, n, ...) where the formatted text is s: at most n-1 bytes
\* of s, then a NUL
snprintf(mem, f, n, s) ==
    IF n = 0 THEN mem
    ELSE Store(mem, FieldOff[f], SubSeq(s, 1, Min(Len(s), n - 1)) \o <<0>>)

\* memcpy (rla.f, s, n)
memcpy(mem, f, s, n) == Store(mem, FieldOff[f], SubSeq(s, 1, n))

\* the value v as a w-byte two's complement integer, most significant byte first
BigEndianBytes(v, w) == [i \in 1..w |-> (v \div (256 ^ (w - i))) % 256]

Reverse(s) == [i \in 1..Len(s) |-> s[Len(s) + 1 - i]]

littleendian == host = "little"

\* the bytes an integer member holds in memory on this host
NativeBytes(v, w) ==
    IF littleendian THEN Reverse(BigEndianBytes(v, w)) ELSE BigEndianBytes(v, w)

\* rla.f = v (the value is truncated to the member's width)
StoreInt(mem, f, v) == Store(mem, FieldOff[f], NativeBytes(v, FieldSize[f]))

RECURSIVE Unsigned(_)
\* the unsigned value of a most-significant-first byte sequence
Unsigned(bytes) ==
    IF Len(bytes) = 0 THEN 0
    ELSE 256 * Unsigned(SubSeq(bytes, 1, Len(bytes) - 1)) + bytes[Len(bytes)]

\* the signed value of a 16-bit member given most-significant-first
Signed16(bytes) ==
    IF Unsigned(bytes) >= 32768 THEN Unsigned(bytes) - 65536 ELSE Unsigned(bytes)

\* swap_endian (&rla.f)
swap_endian(mem, f) == Store(mem, FieldOff[f], Reverse(Field(mem, f)))

-----------------------------------------------------------------------------
(* Text formatting *)

RECURSIVE DecDigits(_)
\* the decimal digits of a natural number
DecDigits(n) == IF n < 10 THEN <<48 + n>> ELSE DecDigits(n \div 10) \o <<48 + (n % 10)>>

RECURSIVE FracDigits(_, _, _)
\* prec digits of the fraction r/d (r < d) by long division
FracDigits(r, d, prec) ==
    IF prec = 0 THEN <<>>
    ELSE <<48 + ((10 * r) \div d)>> \o FracDigits((10 * r) % d, d, prec - 1)

\* printf ("%.<prec>f") of the value n/d, d a power of two small enough for
\* the decimal expansion to end within prec digits (so no rounding happens)
FormatF(n, d, prec) ==
    (IF n < 0 THEN <<45>> ELSE <<>>)
        \o DecDigits((IF n < 0 THEN -n ELSE n) \div d)
        \o <<46>> \o FracDigits((IF n < 0 THEN -n ELSE n) % d, d, prec)

\* two decimal digits with a leading zero (strftime's %m, %d, %H, %M)
TwoDigits(n) == <<48 + (n \div 10), 48 + (n % 10)>>

\* strftime (..., "%m  %d %H:%M %Y", localtime)
FormatDate(t) ==
    TwoDigits(t.month) \o <<32, 32>> \o TwoDigits(t.day) \o <<32>>
        \o TwoDigits(t.hour) \o <<58>> \o TwoDigits(t.min) \o <<32>> \o DecDigits(t.year)

RECURSIVE AtoiDigits(_, _, _)
AtoiDigits(s, i, acc) ==
    IF i > Len(s) \/ s[i] < 48 \/ s[i] > 57 THEN acc
    ELSE AtoiDigits(s, i + 1, 10 * acc + (s[i] - 48))

\* atoi on a buffer that starts with digits
atoi(s) == AtoiDigits(s, 1, 0)

ToLower(s) == [i \in 1..Len(s) |-> IF s[i] >= 65 /\ s[i] <= 90 THEN s[i] + 32 ELSE s[i]]

\* boost::algorithm::iequals
iequals(a, b) == ToLower(a) = ToLower(b)

-----------------------------------------------------------------------------
(* TypeDesc and ImageSpec *)

\* the pixel types the model draws channel and image formats from
Types == {"UINT8", "FLOAT"}

\* what a read past the end of channelformats may find: any TypeDesc
GarbageTypes == Types \cup {"UINT16", "UNKNOWN"}

\* TypeDesc::size ()
TypeSize(t) ==
    CASE t = "UINT8" -> 1 [] t = "UINT16" -> 2 [] t = "FLOAT" -> 4 [] OTHER -> 0

\* an attribute that was never set
NoStr == [present |-> FALSE, value |-> <<>>]
NoInt == [present |-> FALSE, value |-> 0]
NoFloat == [present |-> FALSE, value |-> [n |-> 0, d |-> 1]]
NoParam == [present |-> FALSE, basetype |-> "NONE", aggregate |-> "SCALAR", data |-> <<>>]

\* ImageSpec::get_string_attribute (name, default)
get_string_attribute(a, default) == IF a.present THEN a.value ELSE default

\* ImageSpec::get_int_attribute (name, default)
get_int_attribute(a, default) == IF a.present THEN a.value ELSE default

\* ImageSpec::get_float_attribute (name, default)
get_float_attribute(a, default) == IF a.present THEN a.value ELSE default

-----------------------------------------------------------------------------
(* Statements on the header. open is a straight run of assignments and     *)
(* string calls on the local rla; each is written as one statement record  *)
(* and Run executes a run of them, in order, on the header's byte image.   *)

\* rla.f = v
Assign(f, v) == [op |-> "assign", f |-> f, n |-> 0, s |-> <<>>, v |-> v]
\* strcpy (rla.f, s)
Strcpy(f, s) == [op |-> "strcpy", f |-> f, n |-> 0, s |-> s, v |-> 0]
\* strncpy (rla.f, s, n)
Strncpy(f, s, n) == [op |-> "strncpy", f |-> f, n |-> n, s |-> s, v |-> 0]
\* snprintf (rla.f, n, fmt, ...) with s the formatted text
Snprintf(f, n, s) == [op |-> "snprintf", f |-> f, n |-> n, s |-> s, v |-> 0]
\* strftime (rla.f, n, fmt, tm) with s the formatted text
Strftime(f, n, s) == [op |-> "strftime", f |-> f, n |-> n, s |-> s, v |-> 0]
\* switch (atoi (rla.f)) { case 1: memcpy (rla.f, "JAN", 3); break; ... }
MonthSwitch(f) == [op |-> "month", f |-> f, n |-> 0, s |-> <<>>, v |-> 0]
\* swap_endian (&rla.f)
Swap(f) == [op |-> "swap", f |-> f, n |-> 0, s |-> <<>>, v |-> 0]

\* the switch on atoi (rla.DateCreated)
month_switch(mem, f) ==
    IF atoi(Field(mem, f)) \in 1..12
    THEN memcpy(mem, f, MonthAbbrev[atoi(Field(mem, f))], 3)
    ELSE mem

\* strftime writes the text and a NUL when they fit in n bytes (they always
\* do here: the text is 17 characters and the member 20 bytes)
strftime(mem, f, n, s) == IF Len(s) + 1 <= n THEN strcpy(mem, f, s) ELSE mem

Exec(mem, st) ==
    CASE st.op = "assign" -> StoreInt(mem, st.f, st.v)
      [] st.op = "strcpy" -> strcpy(mem, st.f, st.s)
      [] st.op = "strncpy" -> strncpy(mem, st.f, st.s, st.n)
      [] st.op = "snprintf" -> snprintf(mem, st.f, st.n, st.s)
      [] st.op = "strftime" -> strftime(mem, st.f, st.n, st.s)
      [] st.op = "month" -> month_switch(mem, st.f)
      [] st.op = "swap" -> swap_endian(mem, st.f)

RECURSIVE Run(_, _, _, _)
\* the memory after statements sts[lo], ..., sts[hi], executed in that order
\* (the run is split in halves, which does not change the order)
Run(mem, sts, lo, hi) ==
    IF lo > hi THEN mem
    ELSE IF lo = hi THEN Exec(mem, sts[lo])
    ELSE LET m == Run(mem, sts, lo, (lo + hi) \div 2)
         IN  InOrder(<<m, Run(m, sts, (lo + hi) \div 2 + 1, hi)>>)

-----------------------------------------------------------------------------
(* The channel classifier of open *)

\* channelformats[i] as the code reads it: element i of the vector, or, past
\* its end, whatever the memory behind it holds (g, indexed from the end)
ReadFormats(cf, g) ==
    [i \in 0..(Len(cf) + 2) |-> IF i < Len(cf) THEN cf[i + 1] ELSE g[i - Len(cf)]]

RECURSIVE StreakLoop(_, _, _, _, _, _)
\* for (streak = 1; [streak < 3 &&] remaining > 0; ++streak, --remaining)
\*     if (channelformats[base + streak] != channelformats[base]) break;
StreakLoop(rd, base, streak, remaining, capped, seen) ==
    IF (capped => streak < 3) /\ remaining > 0
    THEN IF rd[base + streak] # rd[base]
         THEN [streak |-> streak, remaining |-> remaining,
               reads |-> seen \cup {base + streak, base}]
         ELSE StreakLoop(rd, base, streak + 1, remaining - 1, capped,
                         seen \cup {base + streak, base})
    ELSE [streak |-> streak, remaining |-> remaining, reads |-> seen]

\* t == TypeDesc::FLOAT ? CT_FLOAT : CT_BYTE
ChannelTypeCode(t) == IF t = "FLOAT" THEN CT_FLOAT ELSE CT_BYTE

\* the member the auxiliary branch assigns its type code to
AuxTypeMember == "MatteChannelType"

\* if (m_spec.channelformats.size ()) { ... }: the statements executed and
\* the channelformats indices read. nc and nm are rla.NumOfColorChannels
\* and rla.NumOfMatteChannels as the later subscripts read them back.
ClassifyExplicit(spec, g) ==
    LET rd == ReadFormats(spec.channelformats, g)
        l1 == StreakLoop(rd, 0, 1, spec.nchannels, TRUE, {0})
        nc == l1.streak
        matte == l1.remaining # 0
        l2 == StreakLoop(rd, nc, 1, l1.remaining, FALSE, l1.reads \cup {nc})
        nm == IF matte THEN l2.streak ELSE 0
        rem2 == IF matte THEN l2.remaining ELSE l1.remaining
        reads2 == IF matte THEN l2.reads ELSE l1.reads
        aux == rem2 # 0
        l3 == StreakLoop(rd, nc + nm, 1, rem2, FALSE, reads2 \cup {nc + nm})
    IN  [sts |->
            <<Assign("ColorChannelType", ChannelTypeCode(rd[0])),
              Assign("NumOfChannelBits", TypeSize(rd[0]) * 8),
              Assign("NumOfColorChannels", l1.streak)>>
            \o (IF matte
                THEN <<Assign("MatteChannelType", ChannelTypeCode(rd[nc])),
                       Assign("NumOfMatteBits", TypeSize(rd[nc]) * 8),
                       Assign("NumOfMatteChannels", l2.streak)>>
                ELSE <<>>)
            \o (IF aux
                THEN <<Assign(AuxTypeMember, ChannelTypeCode(rd[nc + nm])),
                       Assign("NumOfAuxBits", TypeSize(rd[nc + nm]) * 8),
                       Assign("NumOfAuxChannels", l3.streak)>>
                ELSE <<>>),
         reads |-> IF aux THEN l3.reads ELSE reads2]

\* a luminosity branch without the --remaining
LuminosityKeepsRemaining(remaining) == [color |-> 1, remaining |-> remaining]

\* the luminosity branch: rla.NumOfColorChannels = 1; --remaining;
Luminosity(remaining) == [color |-> 1, remaining |-> remaining - 1]

\* } else { ... }: one global pixel type
ClassifyGlobal(spec) ==
    LET code == ChannelTypeCode(spec.format)
        bits == TypeSize(spec.format) * 8
        c == IF spec.nchannels >= 3
             THEN [color |-> 3, remaining |-> spec.nchannels - 3]
             ELSE Luminosity(spec.nchannels)
    IN  [sts |->
            <<Assign("AuxChannelType", code), Assign("MatteChannelType", code),
              Assign("ColorChannelType", code),
              Assign("NumOfAuxBits", bits), Assign("NumOfMatteBits", bits),
              Assign("NumOfChannelBits", bits),
              Assign("NumOfColorChannels", c.color)>>
            \* if (remaining-- > 0) ++rla.NumOfMatteChannels;
            \o (IF c.remaining > 0 THEN <<Assign("NumOfMatteChannels", 0 + 1)>> ELSE <<>>)
            \* if (remaining > 0) rla.NumOfAuxChannels = remaining;
            \o (IF c.remaining - 1 > 0
                THEN <<Assign("NumOfAuxChannels", c.remaining - 1)>> ELSE <<>>),
         reads |-> {}]

\* int remaining = m_spec.nchannels; if (...) {...} else {...}
Classify(spec, g) ==
    IF Len(spec.channelformats) # 0 THEN ClassifyExplicit(spec, g) ELSE ClassifyGlobal(spec)

-----------------------------------------------------------------------------
(* The rest of the header *)

\* frame and window coordinates, rla.FrameNumber
SetWindow(spec) ==
    <<Assign("WindowLeft", spec.full_x),
      Assign("WindowRight", spec.full_x + spec.full_width - 1),
      Assign("WindowBottom", -spec.full_y),
      Assign("WindowTop", spec.full_height - spec.full_y - 1),
      Assign("ActiveLeft", spec.x),
      Assign("ActiveRight", spec.x + spec.width - 1),
      Assign("ActiveBottom", -spec.y),
      Assign("ActiveTop", spec.height - spec.y - 1),
      Assign("FrameNumber", get_int_attribute(spec.FrameNumber, 0))>>

\* rla.Revision = 0xFFFE
Revision == 65534

\* the Gamma member from oiio:ColorSpace and oiio:Gamma
SetGamma(spec) ==
    LET s == get_string_attribute(spec.ColorSpace, Str_Unknown)
        gamma == get_float_attribute(spec.Gamma, [n |-> 1, d |-> 1])
    IN  IF iequals(s, Str_Linear) THEN <<Strcpy("Gamma", Str_1_0)>>
        ELSE IF iequals(s, Str_GammaCorrected)
             THEN <<Snprintf("Gamma", FieldSize["Gamma"], FormatF(gamma.n, gamma.d, 10))>>
             ELSE <<>>

\* the text of "%.4f %.4f[ %.4f]" for a parameter's first k components
ChromaText(p, k) ==
    IF k = 2
    THEN FormatF(p.data[1].n, p.data[1].d, 4) \o <<32>> \o FormatF(p.data[2].n, p.data[2].d, 4)
    ELSE FormatF(p.data[1].n, p.data[1].d, 4) \o <<32>> \o FormatF(p.data[2].n, p.data[2].d, 4)
             \o <<32>> \o FormatF(p.data[3].n, p.data[3].d, 4)

\* RLAOutput::set_chromaticity (p, dst, field_size, default_val)
set_chromaticity(p, dst, field_size, default_val) ==
    IF p.present /\ p.basetype = "FLOAT"
    THEN CASE p.aggregate = "VEC2" -> <<Snprintf(dst, field_size, ChromaText(p, 2))>>
           [] p.aggregate = "VEC3" -> <<Snprintf(dst, field_size, ChromaText(p, 3))>>
           [] OTHER -> <<>>    \* the switch has no case for any other aggregate
    ELSE <<Strcpy(dst, default_val)>>

SetChromaticities(spec) ==
    set_chromaticity(spec.RedChroma, "RedChroma", FieldSize["RedChroma"], DefaultRedChroma)
    \o set_chromaticity(spec.GreenChroma, "GreenChroma", FieldSize["GreenChroma"],
                        DefaultGreenChroma)
    \o set_chromaticity(spec.BlueChroma, "BlueChroma", FieldSize["BlueChroma"],
                        DefaultBlueChroma)
    \o set_chromaticity(spec.WhitePoint, "WhitePoint", FieldSize["WhitePoint"],
                        DefaultWhitePoint)

\* s = get_string_attribute (name, ""); if (s.length ()) strncpy (rla.f, s, sizeof (rla.f))
CopyAttribute(f, a) ==
    IF Len(get_string_attribute(a, <<>>)) # 0
    THEN <<Strncpy(f, get_string_attribute(a, <<>>), FieldSize[f])>>
    ELSE <<>>

\* strftime (rla.DateCreated, sizeof, "%m  %d %H:%M %Y", localtime (&t)) and
\* the switch that replaces the month number by its abbreviation
SetDate(t) ==
    <<Strftime("DateCreated", FieldSize["DateCreated"], FormatDate(t)),
      MonthSwitch("DateCreated")>>

\* strcpy (rla.ColorChannel, get_string_attribute ("rla:ColorChannel", "rgb"))
SetColorChannel(spec) ==
    <<Strcpy("ColorChannel", get_string_attribute(spec.ColorChannel, Str_rgb))>>

\* lines 221-299 of open: everything after the channels, before the swap
SetText(name, spec, t) ==
    <<Assign("Revision", Revision)>>
    \o SetGamma(spec)
    \o SetChromaticities(spec)
    \o <<Assign("JobNumber", get_int_attribute(spec.JobNumber, 0)),
         Strncpy("FileName", name, FieldSize["FileName"])>>
    \o CopyAttribute("Description", spec.ImageDescription)
    \o <<Strcpy("ProgramName", OIIO_INTRO_STRING)>>
    \o CopyAttribute("MachineName", spec.MachineName)
    \o CopyAttribute("UserName", spec.UserName)
    \o SetDate(t)
    \o CopyAttribute("Aspect", spec.Aspect)
    \o <<Snprintf("AspectRatio", FieldSize["AspectRatio"],
                  FormatF(spec.width, spec.height, 10))>>
    \o SetColorChannel(spec)
    \o <<Assign("FieldRendered", get_int_attribute(spec.FieldRendered, 0))>>
    \o CopyAttribute("Time", spec.Time)
    \o CopyAttribute("Filter", spec.Filter)
    \o CopyAttribute("AuxData", spec.AuxData)

\* the swap block without its first line
SwappedMembersButFirst ==
    <<"WindowRight", "WindowBottom", "WindowTop",
      "ActiveLeft", "ActiveRight", "ActiveBottom", "ActiveTop",
      "FrameNumber", "ColorChannelType", "NumOfColorChannels",
      "NumOfMatteChannels", "NumOfAuxChannels", "Revision", "JobNumber",
      "FieldRendered", "NumOfChannelBits", "MatteChannelType",
      "NumOfMatteBits", "AuxChannelType", "NumOfAuxBits", "NextOffset">>

\* the members open passes to swap_endian, in the order of the calls
SwappedMembers ==
    <<"WindowLeft", "WindowRight", "WindowBottom", "WindowTop",
      "ActiveLeft", "ActiveRight", "ActiveBottom", "ActiveTop",
      "FrameNumber", "ColorChannelType", "NumOfColorChannels",
      "NumOfMatteChannels", "NumOfAuxChannels", "Revision", "JobNumber",
      "FieldRendered", "NumOfChannelBits", "MatteChannelType",
      "NumOfMatteBits", "AuxChannelType", "NumOfAuxBits", "NextOffset">>

\* if (littleendian()) { swap_endian (&rla.WindowLeft); ... }
ToBigEndian ==
    IF littleendian
    THEN [i \in 1..Len(SwappedMembers) |-> Swap(SwappedMembers[i])]
    ELSE <<>>

\* the WH() calls with Time and Filter exchanged
WrittenMembersExchanged ==
    <<"WindowLeft", "WindowRight", "WindowBottom", "WindowTop",
      "ActiveLeft", "ActiveRight", "ActiveBottom", "ActiveTop",
      "FrameNumber", "ColorChannelType", "NumOfColorChannels",
      "NumOfMatteChannels", "NumOfAuxChannels", "Revision", "Gamma",
      "RedChroma", "GreenChroma", "BlueChroma", "WhitePoint", "JobNumber",
      "FileName", "Description", "ProgramName", "MachineName", "UserName",
      "DateCreated", "Aspect", "AspectRatio", "ColorChannel", "FieldRendered",
      "Filter", "Time", "NumOfChannelBits", "MatteChannelType",
      "NumOfMatteBits", "AuxChannelType", "NumOfAuxBits", "AuxData",
      "Reserved", "NextOffset">>

\* the members written with WH(), in the order of the calls
WrittenMembers ==
    <<"WindowLeft", "WindowRight", "WindowBottom", "WindowTop",
      "ActiveLeft", "ActiveRight", "ActiveBottom", "ActiveTop",
      "FrameNumber", "ColorChannelType", "NumOfColorChannels",
      "NumOfMatteChannels", "NumOfAuxChannels", "Revision", "Gamma",
      "RedChroma", "GreenChroma", "BlueChroma", "WhitePoint", "JobNumber",
      "FileName", "Description", "ProgramName", "MachineName", "UserName",
      "DateCreated", "Aspect", "AspectRatio", "ColorChannel", "FieldRendered",
      "Time", "Filter", "NumOfChannelBits", "MatteChannelType",
      "NumOfMatteBits", "AuxChannelType", "NumOfAuxBits", "AuxData",
      "Reserved", "NextOffset">>

\* WH(memb): fwrite (&rla.memb, sizeof (rla.memb), 1, m_file), one record each
WriteHeader(mem) ==
    [i \in 1..Len(WrittenMembers) |->
        [member |-> WrittenMembers[i], bytes |-> Field(mem, WrittenMembers[i])]]

\* int32_t temp = 0; for (i = 0; i < m_spec.height; ++i) fwrite (&temp, sizeof(temp), 1, m_file)
WriteOffsetTable(height) == [i \in 1..height |-> [member |-> "temp", bytes |-> Zeros(4)]]

\* the statements of open from the memset to the last swap_endian
Program(name, spec, g, t) ==
    SetWindow(spec) \o Classify(spec, g).sts \o SetText(name, spec, t) \o ToBigEndian

\* the header image open builds
BuildHeader(name, spec, g, t) ==
    LET sts == Program(name, spec, g, t)
    IN  InOrder(<<sts, Run(ZeroHeader, sts, 1, Len(sts))>>)

-----------------------------------------------------------------------------
(* The operations of RLAOutput *)

\* if (m_spec.width < 1 || m_spec.height < 1)
BadResolution(spec) == spec.width < 1 \/ spec.height < 1

\* a depth test that lets a two-slice volume through
IsVolumeAboveTwo(spec) == spec.depth > 2

\* else if (m_spec.depth > 1)
IsVolume(spec) == spec.depth > 1

\* RLAOutput::open (name, userspec, mode); g is the memory behind
\* userspec.channelformats and t the wall-clock time
open(name, userspec, mode, fopenOK, g, t) ==
    /\ last' = "open"
    /\ arg' = [name |-> name, spec |-> userspec, mode |-> mode, fopenOK |-> fopenOK, t |-> t]
    /\ UNCHANGED host
    /\ IF mode # "Create"
       THEN /\ errmsg' = "does not support subimages or MIP levels"
            /\ ret' = FALSE
            /\ reads' = {}
            /\ nwrites' = 0
            /\ UNCHANGED <<m_file, m_spec, out, nopen>>
       ELSE \* close (); m_spec = userspec; m_file = fopen (name, "wb")
            LET closed == IF m_file # "NULL" THEN nopen - 1 ELSE nopen
            IN  IF ~fopenOK
                THEN /\ m_file' = "NULL"
                     /\ nopen' = closed
                     /\ m_spec' = userspec
                     /\ errmsg' = "Could not open file"
                     /\ ret' = FALSE
                     /\ reads' = {}
                     /\ nwrites' = 0
                     /\ UNCHANGED out
                ELSE IF BadResolution(userspec)
                THEN /\ m_file' = "FILE"
                     /\ nopen' = closed + 1
                     /\ m_spec' = userspec
                     /\ out' = <<>>
                     /\ nwrites' = 0
                     /\ errmsg' = "Image resolution must be at least 1x1"
                     /\ ret' = FALSE
                     /\ reads' = {}
                ELSE IF IsVolume(userspec)
                THEN /\ m_file' = "FILE"
                     /\ nopen' = closed + 1
                     /\ m_spec' = userspec
                     /\ out' = <<>>
                     /\ nwrites' = 0
                     /\ errmsg' = "does not support volume images (depth > 1)"
                     /\ ret' = FALSE
                     /\ reads' = {}
                ELSE LET spec == [userspec EXCEPT !.depth = IF @ < 1 THEN 1 ELSE @]
                     IN  /\ m_file' = "FILE"
                         /\ nopen' = closed + 1
                         /\ m_spec' = spec
                         /\ out' = WriteHeader(BuildHeader(name, spec, g, t))
                                       \o WriteOffsetTable(spec.height)
                         /\ nwrites' = Len(WrittenMembers) + spec.height
                         /\ reads' = Classify(spec, g).reads
                         /\ ret' = TRUE
                         /\ UNCHANGED errmsg

\* RLAOutput::close ()
close ==
    /\ m_file' = "NULL"
    /\ nopen' = IF m_file # "NULL" THEN nopen - 1 ELSE nopen
    /\ ret' = TRUE
    /\ last' = "close"
    /\ nwrites' = 0
    /\ UNCHANGED <<m_spec, out, errmsg, arg, reads, host, pending>>

\* RLAOutput::write_scanline (y, z, format, data, xstride): it converts the
\* scanline into m_scratch and writes nothing to the file
write_scanline ==
    /\ ret' = TRUE
    /\ last' = "write_scanline"
    /\ nwrites' = 0
    /\ UNCHANGED <<m_file, m_spec, out, nopen, errmsg, arg, reads, host, pending>>

-----------------------------------------------------------------------------
(* Callers *)

\* a default-constructed ImageSpec with a 4x2 three-channel float image
BaseSpec ==
    [x |-> 0, y |-> 0, width |-> 4, height |-> 2, depth |-> 1,
     full_x |-> 0, full_y |-> 0, full_width |-> 4, full_height |-> 2,
     nchannels |-> 3, format |-> "FLOAT", channelformats |-> <<>>,
     FrameNumber |-> NoInt, JobNumber |-> NoInt, FieldRendered |-> NoInt,
     ColorSpace |-> NoStr, Gamma |-> NoFloat,
     RedChroma |-> NoParam, GreenChroma |-> NoParam, BlueChroma |-> NoParam,
     WhitePoint |-> NoParam,
     ImageDescription |-> NoStr, MachineName |-> NoStr, UserName |-> NoStr,
     Aspect |-> NoStr, ColorChannel |-> NoStr, Time |-> NoStr, Filter |-> NoStr,
     AuxData |-> NoStr]

\* a string of n letters
MkStr(n) == [i \in 1..n |-> 65 + (i % 26)]

StrAttr(s) == [present |-> TRUE, value |-> s]
IntAttr(v) == [present |-> TRUE, value |-> v]
FloatAttr(n, d) == [present |-> TRUE, value |-> [n |-> n, d |-> d]]

BaseTime == [month |-> 11, day |-> 2, hour |-> 16, min |-> 59, year |-> 2026]

NoGarbage == [i \in 0..2 |-> "UNKNOWN"]

BaseCall ==
    [name |-> MkStr(8), spec |-> BaseSpec, mode |-> "Create", fopenOK |-> TRUE,
     g |-> NoGarbage, t |-> BaseTime]

Heights == {2 ^ k : k \in 0..MaxHeightExp}

\* calls that differ in what open validates
CallsOpen ==
    {[BaseCall EXCEPT !.spec.width = w, !.spec.height = h, !.spec.depth = d,
                      !.fopenOK = ok, !.mode = m] :
        w \in {-1, 0, 1, 4}, h \in {-1, 0} \cup Heights, d \in {-1, 0, 1, 2},
        ok \in BOOLEAN, m \in {"Create", "AppendSubimage", "AppendMIPLevel"}}

RECURSIVE SeqsOf(_, _)
\* the sequences of length n over S
SeqsOf(S, n) ==
    IF n = 0 THEN {<<>>} ELSE {Append(s, x) : s \in SeqsOf(S, n - 1), x \in S}

\* calls that differ in the channels: a per-channel type list of length
\* nchannels with anything behind it, or no list and one global type
CallsChan ==
    {[BaseCall EXCEPT !.spec.nchannels = c, !.spec.channelformats = cf, !.g = g] :
        c \in 1..MaxChannels, cf \in UNION {SeqsOf(Types, n) : n \in 1..MaxChannels},
        g \in [0..2 -> GarbageTypes]}
    \cup {[BaseCall EXCEPT !.spec.nchannels = c, !.spec.format = f] :
        c \in 0..MaxChannels, f \in Types \cup {"UINT16"}}

InitObject ==
    /\ m_file = "NULL"
    /\ m_spec = [BaseSpec EXCEPT !.width = 0, !.height = 0, !.nchannels = 0,
                                 !.full_width = 0, !.full_height = 0,
                                 !.format = "UINT8"]
    /\ out = <<>>
    /\ nwrites = 0
    /\ nopen = 0
    /\ ret = TRUE
    /\ errmsg = ""
    /\ last = "none"
    /\ arg = BaseCall
    /\ reads = {}
    /\ host \in {"little", "big"}

\* the caller makes the open call it has prepared
OpenPending ==
    /\ pending # <<>>
    /\ open(pending[1].name, pending[1].spec, pending[1].mode, pending[1].fopenOK,
            pending[1].g, pending[1].t)
    /\ pending' = <<>>

\* a caller that opens first, then writes scanlines and closes
Next ==
    \/ OpenPending
    \/ (pending = <<>> /\ close)
    \/ (pending = <<>> /\ write_scanline)

Init == InitObject /\ pending \in {<<c>> : c \in CallsOpen}

Spec == Init /\ [][Next]_vars

InitChan ==
    /\ InitObject
    /\ pending \in {<<c>> : c \in {k \in CallsChan :
                       Len(k.spec.channelformats) \in {0, k.spec.nchannels}}}

SpecChan == InitChan /\ [][Next]_vars

\* a chromaticity parameter of the given base type and aggregate
Param(basetype, aggregate) ==
    [present |-> TRUE, basetype |-> basetype, aggregate |-> aggregate,
     data |-> <<[n |-> 5, d |-> 8], [n |-> 5, d |-> 16], [n |-> 0, d |-> 1],
                [n |-> 1, d |-> 1]>>]

ChromaParams ==
    {Param("FLOAT", "VEC2"), Param("FLOAT", "VEC3"), Param("FLOAT", "SCALAR"),
     Param("FLOAT", "VEC4"), Param("INT", "VEC2")}

ChromaAttrs == {"RedChroma", "GreenChroma", "BlueChroma", "WhitePoint"}

\* the spec with one chromaticity attribute set
WithChroma(spec, a, p) ==
    [spec EXCEPT !.RedChroma = IF a = "RedChroma" THEN p ELSE @,
                 !.GreenChroma = IF a = "GreenChroma" THEN p ELSE @,
                 !.BlueChroma = IF a = "BlueChroma" THEN p ELSE @,
                 !.WhitePoint = IF a = "WhitePoint" THEN p ELSE @]

\* calls that differ in the text attributes
CallsText ==
    {[BaseCall EXCEPT !.name = nm,
                      !.spec = WithChroma([BaseSpec EXCEPT !.ColorChannel = cc, !.Time = tm,
                                                           !.ColorSpace = cs.space,
                                                           !.Gamma = cs.gamma],
                                          ch[1], ch[2])] :
        nm \in {MkStr(8), MkStr(128 + StrOver)},
        cc \in {NoStr, StrAttr(MkStr(3)), StrAttr(MkStr(31)), StrAttr(MkStr(32)),
                StrAttr(MkStr(32 + StrOver))},
        tm \in {NoStr, StrAttr(MkStr(16 + StrOver))},
        cs \in {[space |-> NoStr, gamma |-> NoFloat],
                [space |-> StrAttr(Str_LINEAR), gamma |-> NoFloat],
                [space |-> StrAttr(Str_GammaCorrected), gamma |-> FloatAttr(9, 4)],
                [space |-> StrAttr(Str_sRGB), gamma |-> FloatAttr(9, 4)]},
        ch \in {<<"RedChroma", NoParam>>} \cup (ChromaAttrs \X ChromaParams)}

\* calls that differ in the integer members of the header
CallsEndian ==
    {[BaseCall EXCEPT !.spec.full_x = fx, !.spec.x = x, !.spec.y = y, !.spec.width = w,
                      !.spec.FrameNumber = fn, !.spec.JobNumber = jn,
                      !.spec.FieldRendered = fr, !.spec.nchannels = c,
                      !.spec.format = f] :
        fx \in {0, 258, -3}, x \in {0, 258}, y \in {0, 1}, w \in {4, 512},
        fn \in {NoInt, IntAttr(258), IntAttr(70000)}, jn \in {NoInt, IntAttr(4660)},
        fr \in {NoInt, IntAttr(1)}, c \in {3, 5}, f \in {"FLOAT", "UINT8"}}

\* calls a caller may make in any order on one object
CallsSeq ==
    {[BaseCall EXCEPT !.spec.width = w, !.spec.depth = d, !.fopenOK = ok, !.mode = m] :
        w \in {0, 4}, d \in {1, 2}, ok \in BOOLEAN, m \in {"Create", "AppendSubimage"}}

InitText == InitObject /\ pending \in {<<c>> : c \in CallsText}

SpecText == InitText /\ [][Next]_vars

InitEndian == InitObject /\ pending \in {<<c>> : c \in CallsEndian}

SpecEndian == InitEndian /\ [][Next]_vars

\* the caller makes any open call
OpenAny ==
    \E c \in CallsSeq :
        /\ open(c.name, c.spec, c.mode, c.fopenOK, c.g, c.t)
        /\ UNCHANGED pending

NextSeq == OpenAny \/ close \/ write_scanline

InitSeq == InitObject /\ pending = <<>>

SpecSeq == InitSeq /\ [][NextSeq]_vars

-----------------------------------------------------------------------------
(* Observations of the file open has written *)

\* the last call was an open that returned true
Opened == last = "open" /\ ret

\* the bytes written for a header member
OutBytes(f) == out[CHOOSE i \in 1..Len(out) : out[i].member = f].bytes

\* a 16-bit header member read back from the file, most significant byte first
HeaderInt(f) == Signed16(OutBytes(f))

\* s cut to n bytes and zero-filled up to n bytes
Pad(s, n) == [i \in 1..n |-> IF i <= Len(s) THEN s[i] ELSE 0]

\* the per-channel type list of the last open
ChannelFormats == arg.spec.channelformats

\* cf is a color run of a channels, a matte run of b and an aux run of c
IsRuns(cf, a, b, c) ==
    /\ a + b + c = Len(cf)
    /\ \A i \in 1..a : cf[i] = cf[1]
    /\ (a < 3 /\ b > 0) => cf[a + 1] # cf[1]
    /\ \A i \in (a + 1)..(a + b) : cf[i] = cf[a + 1]
    /\ c > 0 => (b > 0 /\ cf[a + b + 1] # cf[a + 1])
    /\ \A i \in (a + b + 1)..(a + b + c) : cf[i] = cf[a + b + 1]

-----------------------------------------------------------------------------
(* Channel classification *)

\* C1: on both classifier paths the three channel counts of the header add
\* up to the image's channel count (so zero channels give three empty groups)
C1_CountsSumToChannels ==
    Opened =>
        HeaderInt("NumOfColorChannels") + HeaderInt("NumOfMatteChannels")
            + HeaderInt("NumOfAuxChannels") = arg.spec.nchannels

\* C2: on the explicit path a type list made of a color run a (1..3), a
\* matte run b and an aux run c gives exactly the counts (a, b, c), and no
\* channel type at an index >= the channel count is read
C2_RunsRecovered ==
    (Opened /\ Len(ChannelFormats) # 0) =>
        /\ reads \subseteq 0..(Len(ChannelFormats) - 1)
        /\ \A a \in 1..3, b \in 0..Len(ChannelFormats), c \in 0..Len(ChannelFormats) :
               IsRuns(ChannelFormats, a, b, c) =>
                   /\ HeaderInt("NumOfColorChannels") = a
                   /\ HeaderInt("NumOfMatteChannels") = b
                   /\ HeaderInt("NumOfAuxChannels") = c

C4_GroupTypes ==
    (Opened /\ Len(ChannelFormats) # 0) =>
        LET cf == ChannelFormats
            nc == HeaderInt("NumOfColorChannels")
            nm == HeaderInt("NumOfMatteChannels")
            na == HeaderInt("NumOfAuxChannels")
            FromChannel(typ, bits, t) ==
                /\ HeaderInt(typ) = (IF t = "FLOAT" THEN CT_FLOAT ELSE CT_BYTE)
                /\ HeaderInt(bits) = 8 * TypeSize(t)
        IN  /\ FromChannel("ColorChannelType", "NumOfChannelBits", cf[1])
            /\ (nm > 0 /\ nc + 1 <= Len(cf)) =>
                   FromChannel("MatteChannelType", "NumOfMatteBits", cf[nc + 1])
            /\ (na > 0 /\ nc + nm + 1 <= Len(cf)) =>
                   FromChannel("AuxChannelType", "NumOfAuxBits", cf[nc + nm + 1])

-----------------------------------------------------------------------------
(* Validation and the file handle *)

\* C5: a Create-mode open returns true and writes the header iff width >= 1,
\* height >= 1, depth <= 1 and the file could be created; otherwise it
\* returns false with an error message and writes nothing
C5_OpenValidates ==
    (last = "open" /\ arg.mode = "Create") =>
        LET s == arg.spec
            valid == s.width >= 1 /\ s.height >= 1 /\ s.depth <= 1 /\ arg.fopenOK
        IN  /\ ret <=> valid
            /\ ret => (nwrites >= 40 /\ Len(out) = nwrites /\ out[1].member = "WindowLeft")
            /\ ~ret =>
                   /\ nwrites = 0
                   /\ out = <<>>
                   /\ ~arg.fopenOK => errmsg = "Could not open file"
                   /\ (arg.fopenOK /\ (s.width < 1 \/ s.height < 1)) =>
                          errmsg = "Image resolution must be at least 1x1"
                   /\ (arg.fopenOK /\ s.width >= 1 /\ s.height >= 1) =>
                          errmsg = "does not support volume images (depth > 1)"

\* a volume image with a valid resolution and a creatable file is rejected
C5_Witness ==
    /\ last = "open"
    /\ arg.mode = "Create"
    /\ arg.fopenOK
    /\ arg.spec.width >= 1
    /\ arg.spec.height >= 1
    /\ arg.spec.depth > 1
    /\ ~ret
    /\ nwrites = 0

\* C6: after an open that returned false the object holds no open file
\* handle and no file opened earlier is still open
C6_NoHandleAfterFailedOpen ==
    (last = "open" /\ ~ret) => (m_file = "NULL" /\ nopen = 0)

-----------------------------------------------------------------------------
(* Character members *)

\* the character members of the header
CharMembers ==
    {"Gamma", "RedChroma", "GreenChroma", "BlueChroma", "WhitePoint", "FileName",
     "Description", "ProgramName", "MachineName", "UserName", "DateCreated",
     "Aspect", "AspectRatio", "ColorChannel", "Time", "Filter", "AuxData"}

\* the parameter and the default behind each chromaticity member
ChromaOf(f) ==
    CASE f = "RedChroma" -> [p |-> arg.spec.RedChroma, default |-> DefaultRedChroma]
      [] f = "GreenChroma" -> [p |-> arg.spec.GreenChroma, default |-> DefaultGreenChroma]
      [] f = "BlueChroma" -> [p |-> arg.spec.BlueChroma, default |-> DefaultBlueChroma]
      [] f = "WhitePoint" -> [p |-> arg.spec.WhitePoint, default |-> DefaultWhitePoint]

\* a float parameter of 2 or 3 components
Formattable(p) == p.present /\ p.basetype = "FLOAT" /\ p.aggregate \in {"VEC2", "VEC3"}

\* the text a chromaticity member is to hold
ChromaSource(f) ==
    LET c == ChromaOf(f)
    IN  IF Formattable(c.p)
        THEN ChromaText(c.p, IF c.p.aggregate = "VEC2" THEN 2 ELSE 3)
        ELSE c.default

\* the string each character member is filled from in the last open
SourceOf(f) ==
    LET s == arg.spec
    IN  CASE f = "Gamma" ->
                 IF s.ColorSpace.present /\ iequals(s.ColorSpace.value, Str_Linear)
                 THEN Str_1_0
                 ELSE IF s.ColorSpace.present
                         /\ iequals(s.ColorSpace.value, Str_GammaCorrected)
                 THEN FormatF(get_float_attribute(s.Gamma, [n |-> 1, d |-> 1]).n,
                              get_float_attribute(s.Gamma, [n |-> 1, d |-> 1]).d, 10)
                 ELSE <<>>
          [] f \in ChromaAttrs -> ChromaSource(f)
          [] f = "FileName" -> arg.name
          [] f = "Description" -> s.ImageDescription.value
          [] f = "ProgramName" -> OIIO_INTRO_STRING
          [] f = "MachineName" -> s.MachineName.value
          [] f = "UserName" -> s.UserName.value
          [] f = "DateCreated" ->
                 MonthAbbrev[arg.t.month] \o <<32>> \o TwoDigits(arg.t.day) \o <<32>>
                     \o TwoDigits(arg.t.hour) \o <<58>> \o TwoDigits(arg.t.min)
                     \o <<32>> \o DecDigits(arg.t.year)
          [] f = "Aspect" -> s.Aspect.value
          [] f = "AspectRatio" -> FormatF(s.width, s.height, 10)
          [] f = "ColorChannel" -> get_string_attribute(s.ColorChannel, Str_rgb)
          [] f = "Time" -> s.Time.value
          [] f = "Filter" -> s.Filter.value
          [] f = "AuxData" -> s.AuxData.value

\* C7: every character member holds the first min(len, size) bytes of its
\* source string followed by zero bytes up to its size, whatever the length
\* of the source, so filling one member changes no byte of another (the
\* chromaticity members are compared when the parameter is absent, not a
\* float, or a float of 2 or 3 components)
C7_FieldsTruncatedAndPadded ==
    Opened =>
        \A f \in CharMembers :
            (f \in ChromaAttrs => (Formattable(ChromaOf(f).p)
                                   \/ ~ChromaOf(f).p.present
                                   \/ ChromaOf(f).p.basetype # "FLOAT")) =>
                OutBytes(f) = Pad(SourceOf(f), FieldSize[f])

\* C8: each chromaticity member holds the formatted components of a float
\* parameter of 2 or 3 components, and in every other case the member's
\* NTSC default; it is never empty
C8_ChromaticityOrDefault ==
    Opened =>
        \A f \in ChromaAttrs :
            /\ OutBytes(f) = Pad(ChromaSource(f), FieldSize[f])
            /\ OutBytes(f)[1] # 0

-----------------------------------------------------------------------------
(* The byte stream *)

\* the members of the header in the order the format lists them
HeaderOrder ==
    <<"WindowLeft", "WindowRight", "WindowBottom", "WindowTop",
      "ActiveLeft", "ActiveRight", "ActiveBottom", "ActiveTop",
      "FrameNumber", "ColorChannelType", "NumOfColorChannels",
      "NumOfMatteChannels", "NumOfAuxChannels", "Revision", "Gamma",
      "RedChroma", "GreenChroma", "BlueChroma", "WhitePoint", "JobNumber",
      "FileName", "Description", "ProgramName", "MachineName", "UserName",
      "DateCreated", "Aspect", "AspectRatio", "ColorChannel", "FieldRendered",
      "Time", "Filter", "NumOfChannelBits", "MatteChannelType",
      "NumOfMatteBits", "AuxChannelType", "NumOfAuxBits", "AuxData",
      "Reserved", "NextOffset">>

\* C9: a successful open writes the 40 header members once each in the
\* format's order, each in a write of its own width, then exactly height
\* zero-valued 32-bit entries and nothing else
C9_WriteOrder ==
    Opened =>
        /\ Len(out) = Len(HeaderOrder) + arg.spec.height
        /\ nwrites = Len(out)
        /\ \A i \in 1..Len(HeaderOrder) :
               /\ out[i].member = HeaderOrder[i]
               /\ Len(out[i].bytes) = FieldSize[HeaderOrder[i]]
        /\ \A i \in (Len(HeaderOrder) + 1)..Len(out) :
               /\ out[i].member = "temp"
               /\ out[i].bytes = <<0, 0, 0, 0>>

\* a four-row image: 40 header writes followed by four table entries
C9_Witness ==
    /\ Opened
    /\ arg.spec.height = 4
    /\ Len(out) = 44
    /\ out[31].member = "Time"
    /\ out[44].member = "temp"

\* the value each integer member of the header is to carry after the last open
IntegerValues ==
    LET s == arg.spec
        C == s.nchannels
        color == IF C >= 3 THEN 3 ELSE 1
        matte == IF C - color >= 1 THEN 1 ELSE 0
        code == IF s.format = "FLOAT" THEN 4 ELSE 0
        bits == 8 * TypeSize(s.format)
    IN  [WindowLeft |-> s.full_x,
         WindowRight |-> s.full_x + s.full_width - 1,
         WindowBottom |-> -s.full_y,
         WindowTop |-> s.full_height - s.full_y - 1,
         ActiveLeft |-> s.x,
         ActiveRight |-> s.x + s.width - 1,
         ActiveBottom |-> -s.y,
         ActiveTop |-> s.height - s.y - 1,
         FrameNumber |-> IF s.FrameNumber.present THEN s.FrameNumber.value ELSE 0,
         ColorChannelType |-> code,
         MatteChannelType |-> code,
         AuxChannelType |-> code,
         NumOfColorChannels |-> color,
         NumOfMatteChannels |-> matte,
         NumOfAuxChannels |-> IF C - color - matte >= 1 THEN C - color - matte ELSE 0,
         Revision |-> 65534,
         JobNumber |-> IF s.JobNumber.present THEN s.JobNumber.value ELSE 0,
         FieldRendered |-> IF s.FieldRendered.present THEN s.FieldRendered.value ELSE 0,
         NumOfChannelBits |-> bits,
         NumOfMatteBits |-> bits,
         NumOfAuxBits |-> bits,
         NextOffset |-> 0]

\* C10: every integer member of the header is written most significant
\* byte first, on a little-endian host as on a big-endian one
C10_BigEndianOnAnyHost ==
    (Opened /\ Len(ChannelFormats) = 0) =>
        \A f \in DOMAIN IntegerValues :
            LET b == OutBytes(f)
            IN  \A i \in 1..Len(b) :
                    b[i] = (IntegerValues[f] \div (256 ^ (Len(b) - i))) % 256

\* WindowLeft = 0x0102 on a little-endian host is written as 0x01, 0x02
C10_Witness ==
    /\ Opened
    /\ host = "little"
    /\ arg.spec.full_x = 258
    /\ OutBytes("WindowLeft") = <<1, 2>>
    /\ arg.spec.FrameNumber.present
    /\ OutBytes("FrameNumber") = <<1, 2>>

====
